---------------------------- MODULE Spec2Model ----------------------------
(***************************************************************************)
(* Custodial key vault and signing flows of zero-spaces: the register,    *)
(* login and upload-video-metadata edge functions over the User and Video *)
(* tables of schema.sql.                                                   *)
(*                                                                         *)
(* Strings are sequences of UTF-16 code units (97 is "a"), byte arrays    *)
(* are sequences of 0..255, time is in milliseconds since an origin.      *)
(* The library primitives (SHA-256 based PBKDF2 and HMAC, AES-GCM,        *)
(* bcrypt, secp256k1) are modelled by a keyed polynomial hash over a      *)
(* prime field: it is computed, so equal outputs for different inputs     *)
(* are something the model checker can find.                              *)
(***************************************************************************)
EXTENDS Integers, Sequences, FiniteSets, TLC

(***************************************************************************)
(* State.                                                                  *)
(***************************************************************************)

VARIABLES
    users,      \* the "User" table: a set of rows
    videos,     \* the "Video" table: a set of rows
    tokens,     \* the tokens login has returned (held by clients)
    now,        \* the clock, in milliseconds
    ticks,      \* how often the clock has advanced
    req,        \* the request the last step handled (NoRequest: it was not a request)
    resp,       \* the response to it
    vault,      \* history: per account id, what registration wrapped and with what
    signings,   \* history: every message signed, with the key and the Video id
    corrupted,  \* history: the stored fields that were altered in place, per account id
    inflight,   \* the register requests handled step by step: where each one is
    loggedOut,  \* history: the tokens whose client has logged out
    storage,    \* the browser's localStorage: the items auth_token and user
    authState,  \* the state of the client's AuthProvider
    location,   \* the page the browser is at, and whether the app has loaded there
    sample      \* a value under conversion: the input and what was made of it

vars == <<users, videos, tokens, now, ticks, req, resp, vault, signings, corrupted,
         inflight, loggedOut, storage, authState, location, sample>>

\* the server's part of the state, and the browser's
serverVars == <<users, videos, tokens, now, ticks, req, resp, vault, signings, corrupted,
               inflight, loggedOut>>
clientVars == <<storage, authState, location>>

(***************************************************************************)
(* Text: String.prototype.toLowerCase, the email regular expression.       *)
(***************************************************************************)

\* "a@x.c", "A@x.c", "ax.c" (no @), "" as code-unit sequences
EmailLower == <<97, 64, 120, 46, 99>>
EmailUpper == <<65, 64, 120, 46, 99>>
EmailBad == <<97, 120, 46, 99>>
Empty == <<>>

\* "Abcd1234", a password with a non-ASCII unit (e acute for the "4"), and "Ab1"
PwGood == <<65, 98, 99, 100, 49, 50, 51, 52>>
PwAccent == <<65, 98, 99, 100, 49, 50, 51, 233>>
PwShort == <<65, 98, 49>>

ToLowerCaseUnit(c) == IF c >= 65 /\ c <= 90 THEN c + 32 ELSE c

ToLowerCase(s) == [i \in 1..Len(s) |-> ToLowerCaseUnit(s[i])]

\* \s of the regular expression, on the code units the model uses
IsSpace(c) == c \in {9, 10, 11, 12, 13, 32, 160}

\* /^[^\s@]+@[^\s@]+\.[^\s@]+$/.test(email)
EmailRegexTest(s) ==
    /\ \A i \in 1..Len(s) : ~IsSpace(s[i])
    /\ \E i \in 1..Len(s) :
          /\ s[i] = 64
          /\ \A j \in 1..Len(s) : s[j] = 64 => j = i
          /\ i > 1
          /\ \E d \in (i + 2)..(Len(s) - 1) : s[d] = 46

\* RegisterPage's pattern /^(?=.*[a-z])(?=.*[A-Z])(?=.*\d)/ on the password field
PasswordPattern(p) ==
    /\ \E i \in 1..Len(p) : p[i] >= 97 /\ p[i] <= 122
    /\ \E i \in 1..Len(p) : p[i] >= 65 /\ p[i] <= 90
    /\ \E i \in 1..Len(p) : p[i] >= 48 /\ p[i] <= 57

(***************************************************************************)
(* Bytes: TextEncoder / TextDecoder (UTF-8) and the hex storage format.    *)
(***************************************************************************)

\* the concatenation of a sequence of sequences (join(''))
RECURSIVE Flatten(_)
Flatten(ss) ==
    IF Len(ss) = 0 THEN <<>>
    ELSE IF Len(ss) = 1 THEN ss[1]
    ELSE Flatten(SubSeq(ss, 1, Len(ss) \div 2))
             \o Flatten(SubSeq(ss, Len(ss) \div 2 + 1, Len(ss)))

\* one code unit below the surrogate range to its UTF-8 bytes
EncodeUnit(c) ==
    IF c < 128 THEN <<c>>
    ELSE IF c < 2048 THEN <<192 + (c \div 64), 128 + (c % 64)>>
    ELSE <<224 + (c \div 4096), 128 + ((c \div 64) % 64), 128 + (c % 64)>>

\* new TextEncoder().encode(s)
TextEncode(s) == Flatten([i \in 1..Len(s) |-> EncodeUnit(s[i])])

IsCont(b) == b >= 128 /\ b < 192

\* new TextDecoder().decode(bytes): malformed input decodes to U+FFFD
RECURSIVE TextDecode(_)
TextDecode(b) ==
    IF b = <<>> THEN <<>>
    ELSE IF b[1] < 128 THEN <<b[1]>> \o TextDecode(Tail(b))
    ELSE IF b[1] >= 194 /\ b[1] < 224 /\ Len(b) >= 2 /\ IsCont(b[2])
         THEN <<(b[1] - 192) * 64 + (b[2] - 128)>> \o TextDecode(SubSeq(b, 3, Len(b)))
    ELSE IF b[1] >= 224 /\ b[1] < 240 /\ Len(b) >= 3 /\ IsCont(b[2]) /\ IsCont(b[3])
            /\ (b[1] - 224) * 4096 + (b[2] - 128) * 64 + (b[3] - 128) >= 2048
         THEN <<(b[1] - 224) * 4096 + (b[2] - 128) * 64 + (b[3] - 128)>>
                  \o TextDecode(SubSeq(b, 4, Len(b)))
    ELSE <<65533>> \o TextDecode(Tail(b))

\* the digit of Number.prototype.toString(16): "0".."9", "a".."f"
HexDigit(n) == IF n < 10 THEN 48 + n ELSE 87 + n

\* b.toString(16): no leading zero
ToString16(b) == IF b < 16 THEN <<HexDigit(b)>> ELSE <<HexDigit(b \div 16), HexDigit(b % 16)>>

\* (a variant: no padding)
Unpadded(s) == s

\* s.padStart(2, '0')
PadStart2(s) == IF Len(s) < 2 THEN <<48>> \o s ELSE s

\* Array.from(bytes).map(b => b.toString(16).padStart(2, '0')).join('')
ToHex(bytes) == Flatten([i \in 1..Len(bytes) |-> PadStart2(ToString16(bytes[i]))])

\* the value of one hex digit, -1 for any other code unit
DigitValue(c) ==
    IF c >= 48 /\ c <= 57 THEN c - 48
    ELSE IF c >= 97 /\ c <= 102 THEN c - 87
    ELSE IF c >= 65 /\ c <= 70 THEN c - 55
    ELSE -1

\* parseInt(chunk, 16) of a chunk of one or two units, stored into a Uint8Array:
\* the leading hex digits are read, NaN (no leading digit) is stored as 0
ParseInt16(chunk) ==
    IF DigitValue(chunk[1]) < 0 THEN 0
    ELSE IF Len(chunk) = 1 \/ DigitValue(chunk[2]) < 0 THEN DigitValue(chunk[1])
    ELSE DigitValue(chunk[1]) * 16 + DigitValue(chunk[2])

\* s.match(/.{1,2}/g): chunks of two units, the last one of one unit when Len is odd
MatchPairs(s) ==
    [k \in 1..((Len(s) + 1) \div 2) |->
        SubSeq(s, 2 * k - 1, IF 2 * k <= Len(s) THEN 2 * k ELSE Len(s))]

\* new Uint8Array(hex.match(/.{1,2}/g)!.map(byte => parseInt(byte, 16)))
FromHex(s) ==
    LET chunks == MatchPairs(s)
    IN  [k \in 1..Len(chunks) |-> ParseInt16(chunks[k])]

(***************************************************************************)
(* Library primitives, as a keyed polynomial hash over GF(HashMod).        *)
(***************************************************************************)

\* the digest space (a prime) and the multiplier of the polynomial
HashMod == 46337
HashMul == 251

\* Horner's rule over the first n elements of s, from state h; an element e
\* counts as e + 1, so sequences of different length, and -1 used as a field
\* separator, differ
RECURSIVE Horner(_, _, _)
Horner(h, s, n) ==
    IF n = 0 THEN h ELSE (Horner(h, s, n - 1) * HashMul + s[n] + 1) % HashMod

\* absorb a sequence of numbers into state h
Absorb(h, s) == Horner(h, s, Len(s))

\* a digest as TagLength big-endian bytes
DigestBytes(h) == <<h \div 256, h % 256>>

\* PBKDF2 parameters of register and of upload-video-metadata
WrapIterations == 100000
\* (a variant: half of them)
HalvedIterations == WrapIterations \div 2
UnwrapIterations == 100000

\* crypto.subtle.deriveKey({name: 'PBKDF2', salt, iterations, hash: 'SHA-256'}, ...)
DeriveKey(passwordBytes, salt, iterations) ==
    (Absorb(Absorb(Absorb(0, passwordBytes), <<-1>>), salt) + iterations) % HashMod

\* AES-GCM under a key and an iv: the state both the keystream and the tag start from
GcmState(key, iv) == Absorb(key, iv)

\* the keystream byte at position i
KeyStream(st, i) == Absorb(st, <<-1, i>>) % 256

\* (a variant: a tag that covers the body alone, not the key and the iv)
TagOfBodyOnly(st, body) == DigestBytes(Absorb(0, body))

\* the authentication tag over the encrypted body
GcmTag(st, body) == DigestBytes(Absorb(Absorb(st, <<-1, -1>>), body))

TagLength == 2

\* crypto.subtle.encrypt({name: 'AES-GCM', iv}, key, plaintext): body, then tag
AesGcmEncrypt(key, iv, plain) ==
    LET st == GcmState(key, iv)
        body == [i \in 1..Len(plain) |-> (plain[i] + KeyStream(st, i)) % 256]
    IN  body \o GcmTag(st, body)

\* (a variant: decryption that does not verify the tag)
DecryptUnauthenticated(key, iv, data) ==
    [ok |-> TRUE,
     plain |-> [i \in 1..(Len(data) - TagLength) |->
                   (data[i] + 256 - KeyStream(GcmState(key, iv), i)) % 256]]

\* crypto.subtle.decrypt({name: 'AES-GCM', iv}, key, data): throws (ok = FALSE)
\* when the data is shorter than a tag or the tag does not verify
AesGcmDecrypt(key, iv, data) ==
    IF Len(data) < TagLength THEN [ok |-> FALSE, plain |-> <<>>]
    ELSE LET st == GcmState(key, iv)
             body == SubSeq(data, 1, Len(data) - TagLength)
             tag == SubSeq(data, Len(data) - TagLength + 1, Len(data))
         IN  IF tag # GcmTag(st, body) THEN [ok |-> FALSE, plain |-> <<>>]
             ELSE [ok |-> TRUE,
                   plain |-> [i \in 1..Len(body) |->
                                 (body[i] + 256 - KeyStream(st, i)) % 256]]

(***************************************************************************)
(* Wallet Provider: ethers.Wallet (key pair, address, personal signing).   *)
(***************************************************************************)

\* "0x1a", "0x2b", "0x3c": private keys as "0x" and PrivateKeyHexLength hex digits
KeyA == <<48, 120, 49, 97>>
KeyB == <<48, 120, 50, 98>>
KeyC == <<48, 120, 51, 99>>
PrivateKeyHexLength == 2
AddressBytes == 4

\* what new ethers.Wallet(s) accepts as a private key; anything else throws
IsPrivateKey(s) ==
    /\ Len(s) = 2 + PrivateKeyHexLength
    /\ s[1] = 48 /\ s[2] = 120
    /\ \A i \in 3..Len(s) : DigitValue(s[i]) >= 0

\* wallet.address: "0x" and the hex of AddressBytes bytes derived from the key
\* (the mixed-case checksum of the real address is left out)
ComputeAddress(privateKey) ==
    LET h == Absorb(0, TextEncode(privateKey))
    IN  <<48, 120>> \o ToHex([i \in 1..AddressBytes |-> Absorb(h, <<-1, i>>) % 256])

\* (a variant: a signature by the key no account holds)
SignAsStranger(privateKey, message) ==
    [signer |-> ComputeAddress(KeyC), message |-> message]

\* signer.signMessage(message): binds the signer's address and the exact message
SignMessage(privateKey, message) ==
    [signer |-> ComputeAddress(privateKey), message |-> message]

\* ethers.verifyMessage(message, signature): the recovered address; recovery
\* over another message yields no address of the system
VerifyMessage(message, signature) ==
    IF signature.message = message THEN signature.signer ELSE <<>>

(***************************************************************************)
(* bcrypt (register: hash, login: verify).                                 *)
(***************************************************************************)

BcryptHash(password, bsalt) ==
    [salt |-> bsalt,
     digest |-> Absorb(Absorb(Absorb(0, bsalt), <<-1>>), TextEncode(password))]

\* (a variant: every password verifies)
VerifiesAlways(password, h) == TRUE

BcryptVerify(password, h) == h = BcryptHash(password, h.salt)

(***************************************************************************)
(* Session tokens: djwt create / verify with an HS256 key.                 *)
(***************************************************************************)

\* Deno.env.get('JWT_SECRET') ("s1") and a secret of somebody else ("s2")
JwtSecret == <<115, 49>>
ForeignSecret == <<115, 50>>

\* "HS256", "none"
AlgHS256 == <<72, 83, 50, 53, 54>>
AlgNone == <<110, 111, 110, 101>>

\* 7 * 24 * 60 * 60 * 1000
TokenLifetimeMs == 604800000
\* djwt's default expLeeway, in seconds
ExpLeeway == 1

\* getNumericDate(date): Math.round(date.getTime() / 1000)
GetNumericDate(ms) == (ms + 500) \div 1000

\* the bytes the MAC covers: header and payload
SigningInput(alg, payload) ==
    alg \o <<-1, payload.sub, -1>> \o payload.email \o <<-1>> \o payload.walletAddress
        \o <<-1, payload.iat, payload.exp>>

\* (a variant: a digest of the data that does not depend on the key)
KeylessMac(secret, data) == Absorb(0, data)

\* HMAC-SHA-256 under the imported key
Hmac(secret, data) == Absorb(Absorb(Absorb(0, TextEncode(secret)), <<-1>>), data)

\* create({ alg: 'HS256', typ: 'JWT' }, payload, key)
JwtCreate(payload, secret) ==
    [alg |-> AlgHS256, payload |-> payload,
     signature |-> Hmac(secret, SigningInput(AlgHS256, payload))]

\* (a variant: verify with ignoreExp)
VerifyIgnoringExp(token, secret, nowMs) ==
    IF token.alg # AlgHS256 THEN [ok |-> FALSE, why |-> "algorithm"]
    ELSE IF token.signature # Hmac(secret, SigningInput(token.alg, token.payload))
         THEN [ok |-> FALSE, why |-> "signature"]
    ELSE [ok |-> TRUE, why |-> "ok"]

\* (a variant: verify after a look at a list of revoked tokens)
VerifyUnlessLoggedOut(token, secret, nowMs) ==
    IF token \in loggedOut THEN [ok |-> FALSE, why |-> "revoked"]
    ELSE IF (token.payload.exp + ExpLeeway) * 1000 < nowMs
         THEN [ok |-> FALSE, why |-> "expired"]
    ELSE IF token.alg # AlgHS256 THEN [ok |-> FALSE, why |-> "algorithm"]
    ELSE IF token.signature # Hmac(secret, SigningInput(token.alg, token.payload))
         THEN [ok |-> FALSE, why |-> "signature"]
    ELSE [ok |-> TRUE, why |-> "ok"]

\* verify(token, key): throws (ok = FALSE) on an expired token, on an algorithm
\* that is not the key's, and on a signature that does not match
JwtVerify(token, secret, nowMs) ==
    IF (token.payload.exp + ExpLeeway) * 1000 < nowMs THEN [ok |-> FALSE, why |-> "expired"]
    ELSE IF token.alg # AlgHS256 THEN [ok |-> FALSE, why |-> "algorithm"]
    ELSE IF token.signature # Hmac(secret, SigningInput(token.alg, token.payload))
         THEN [ok |-> FALSE, why |-> "signature"]
    ELSE [ok |-> TRUE, why |-> "ok"]

(***************************************************************************)
(* Date.prototype.toISOString, for instants in January 1970.               *)
(***************************************************************************)

Digits2(n) == <<48 + (n \div 10), 48 + (n % 10)>>
Digits3(n) == <<48 + (n \div 100), 48 + ((n \div 10) % 10), 48 + (n % 10)>>

\* "1970-01-DDTHH:mm:ss.sssZ"
ToISOString(ms) ==
    <<49, 57, 55, 48, 45, 48, 49, 45>> \o Digits2(1 + ms \div 86400000) \o <<84>>
        \o Digits2((ms \div 3600000) % 24) \o <<58>> \o Digits2((ms \div 60000) % 60)
        \o <<58>> \o Digits2((ms \div 1000) % 60) \o <<46>> \o Digits3(ms % 1000) \o <<90>>

\* `Video Upload: ${videoUrl}\nTitle: ${title}\nTimestamp: ${iso}`
CanonicalMessage(videoUrl, title, iso) ==
    <<86, 105, 100, 101, 111, 32, 85, 112, 108, 111, 97, 100, 58, 32>> \o videoUrl
        \o <<10, 84, 105, 116, 108, 101, 58, 32>> \o title
        \o <<10, 84, 105, 109, 101, 115, 116, 97, 109, 112, 58, 32>> \o iso

(***************************************************************************)
(* Bounds, inputs, initial state.                                          *)
(***************************************************************************)

\* bounds of the model
MaxVideos == 1
MaxTokens == 1
MaxTicks == 3

\* what the clients send to login: the well-formed credentials, and one request
\* for each way of being malformed
Credentials ==
    {[email |-> e, password |-> p] : e \in {EmailLower, EmailUpper}, p \in {PwGood, PwAccent}}
        \cup {[email |-> Empty, password |-> PwGood],
              [email |-> EmailLower, password |-> Empty],
              [email |-> EmailBad, password |-> PwGood],
              [email |-> EmailLower, password |-> PwShort]}

\* what the clients send to register: each address signs up with one password
Registrations ==
    Credentials \ {[email |-> EmailLower, password |-> PwAccent],
                   [email |-> EmailUpper, password |-> PwGood]}

\* what the clients send to upload-video-metadata
UrlA == <<117>>
TitleA == <<116>>
TitleB == <<84>>
BadJson == [malformed |-> TRUE]
Bodies ==
    {[videoUrl |-> UrlA, title |-> TitleA, password |-> p] : p \in {PwGood, PwAccent, Empty}}
        \cup {[videoUrl |-> Empty, title |-> TitleB, password |-> PwGood], BadJson}

\* what the random sources return: Wallet.createRandom(), getRandomValues (salt, iv)
\* and bcrypt's salt; the salt has two bytes for the code's 32, the iv one for 12
RandomDraws ==
    {[privateKey |-> KeyA, salt |-> <<0, 9>>, iv |-> <<171>>, bsalt |-> <<7>>],
     [privateKey |-> KeyB, salt |-> <<255, 16>>, iv |-> <<0>>, bsalt |-> <<8>>]}

\* how far the clock advances in its k-th step: to a second before the end of a
\* token lifetime, to a second after it, then second by second
TickStep(k) ==
    IF k = 1 THEN TokenLifetimeMs - 1000 ELSE IF k = 2 THEN 2000 ELSE 1000

\* the database's clock is read after the handler's: by how much later
InsertLag == {0, 1}

NoRequest == [op |-> "none"]
NoToken == [alg |-> <<>>]
NoAuth == [scheme |-> "", token |-> NoToken]
NoRow == [id |-> 0]
NoBody == [none |-> TRUE]

Response(op, status, error, body) ==
    [op |-> op, status |-> status, error |-> error, body |-> body]

\* no request was handled, or one that is not answered yet
NoResponse == Response("none", 0, "", NoBody)

\* null; an empty localStorage; no value under conversion
Null == [null |-> TRUE]
NoItems == [auth_token |-> Null, user |-> Null]
NoSample == [stage |-> "none"]

Init ==
    /\ users = {}
    /\ videos = {}
    /\ tokens = {}
    /\ now = 0
    /\ ticks = 0
    /\ req = NoRequest
    /\ resp = NoResponse
    /\ vault = <<>>
    /\ signings = {}
    /\ corrupted = {}
    /\ inflight = {}
    /\ loggedOut = {}
    /\ storage = NoItems
    /\ authState = [user |-> Null, token |-> Null, loading |-> TRUE, error |-> Null]
    /\ location = [path |-> "/", loaded |-> FALSE]
    /\ sample = NoSample

(***************************************************************************)
(* register                                                                *)
(***************************************************************************)

MinPasswordLength == 8

\* (a variant: the bundle holds another key than the wallet's)
WrapStranger(privateKey, password, salt, iv) ==
    LET key == DeriveKey(TextEncode(password), salt, WrapIterations)
    IN  [salt |-> ToHex(salt),
         iv |-> ToHex(iv),
         encryptedPrivateKey |-> ToHex(AesGcmEncrypt(key, iv, TextEncode(KeyC)))]

\* register: salt/iv, PBKDF2, AES-GCM encrypt, hex strings for storage
Wrap(privateKey, password, salt, iv) ==
    LET key == DeriveKey(TextEncode(password), salt, WrapIterations)
    IN  [salt |-> ToHex(salt),
         iv |-> ToHex(iv),
         encryptedPrivateKey |-> ToHex(AesGcmEncrypt(key, iv, TextEncode(privateKey)))]

\* (a variant: the username is the email)
NewUserRowNamed(email, password, draw) ==
    LET bundle == Wrap(draw.privateKey, password, draw.salt, draw.iv)
    IN  [id |-> Len(vault) + 1,
         email |-> email,
         username |-> email,
         passwordHash |-> BcryptHash(password, draw.bsalt),
         walletAddress |-> ComputeAddress(draw.privateKey),
         encryptedPrivateKey |-> bundle.encryptedPrivateKey,
         salt |-> bundle.salt,
         iv |-> bundle.iv,
         createdAt |-> now,
         updatedAt |-> now]

\* the row register inserts; id and the timestamps are the table's defaults
NewUserRow(email, password, draw) ==
    LET bundle == Wrap(draw.privateKey, password, draw.salt, draw.iv)
        walletAddress == ComputeAddress(draw.privateKey)
    IN  [id |-> Len(vault) + 1,
         email |-> email,
         username |-> walletAddress,
         passwordHash |-> BcryptHash(password, draw.bsalt),
         walletAddress |-> walletAddress,
         encryptedPrivateKey |-> bundle.encryptedPrivateKey,
         salt |-> bundle.salt,
         iv |-> bundle.iv,
         createdAt |-> now,
         updatedAt |-> now]

\* (a variant: a table without UNIQUE constraints)
NoConflict(row) == FALSE

\* the UNIQUE constraints of the "User" table
UserInsertConflicts(row) ==
    \E u \in users : \/ u.email = row.email
                     \/ u.username = row.username
                     \/ u.walletAddress = row.walletAddress

\* (a variant: the whole row goes into the response)
WholeUser(u) == u

PublicUser(u) ==
    [id |-> u.id, email |-> u.email, username |-> u.username,
     walletAddress |-> u.walletAddress, createdAt |-> u.createdAt]

\* register up to the existence check: the response that ends the request there
\* (NoResponse: the request goes on to the insert)
RegisterReject(email, password) ==
    IF email = Empty \/ password = Empty
    THEN Response("register", 400, "Email and password are required", NoBody)
    ELSE IF ~EmailRegexTest(email)
    THEN Response("register", 400, "Invalid email format", NoBody)
    ELSE IF Len(password) < MinPasswordLength
    THEN Response("register", 400, "Password must be at least 8 characters long", NoBody)
    ELSE IF \E u \in users : u.email = email
    THEN Response("register", 409, "User already exists with this email", NoBody)
    ELSE NoResponse

\* (a variant: the row is stored although the insert reports an error)
InsertDespiteError(email, password, draw) ==
    LET row == NewUserRow(email, password, draw)
    IN  IF UserInsertConflicts(row)
        THEN [resp |-> Response("register", 500, "Failed to create user account", NoBody),
              row |-> [row EXCEPT !.email = <<>>, !.username = <<>>,
                                  !.walletAddress = <<>>]]
        ELSE [resp |-> Response("register", 201, "", PublicUser(row)), row |-> row]

\* register from the hash to the response: the insert and what follows it
InsertUser(email, password, draw) ==
    LET row == NewUserRow(email, password, draw)
    IN  IF UserInsertConflicts(row)
        THEN [resp |-> Response("register", 500, "Failed to create user account", NoBody),
              row |-> NoRow]
        ELSE [resp |-> Response("register", 201, "", PublicUser(row)), row |-> row]

\* the register handler: its response and the row it inserted (NoRow: none)
RegisterOutcome(email, password, draw) ==
    IF RegisterReject(email, password) # NoResponse
    THEN [resp |-> RegisterReject(email, password), row |-> NoRow]
    ELSE InsertUser(email, password, draw)

\* the register function handles one request out of the given ones
ServeRegister(requests) ==
    \E c \in requests, draw \in RandomDraws :
        LET email == c.email
            password == c.password
            out == RegisterOutcome(email, password, draw)
        IN  /\ req' = [op |-> "register", email |-> email, password |-> password]
            /\ resp' = out.resp
            /\ users' = IF out.row = NoRow THEN users ELSE users \cup {out.row}
            /\ vault' = IF out.row = NoRow THEN vault
                        ELSE Append(vault, [password |-> password,
                                            privateKey |-> draw.privateKey,
                                            email |-> email])
            /\ UNCHANGED <<videos, tokens, now, ticks, signings, corrupted, inflight,
                           loggedOut, sample>>

\* one register request out of the given ones is handled; the browser is not
\* involved
RegisterBy(requests) == ServeRegister(requests) /\ UNCHANGED clientVars

Register == RegisterBy(Registrations)

\* register requests that run concurrently: the existence check and the insert
\* are two round trips to the database, and other requests run between them
MaxInflight == 2

\* "abcdefgh": eight characters of one class
PwPlain == <<97, 98, 99, 100, 101, 102, 103, 104>>

ConcurrentRegistrations ==
    {[email |-> EmailLower, password |-> PwGood],
     [email |-> EmailLower, password |-> PwPlain],
     [email |-> EmailUpper, password |-> PwAccent],
     [email |-> EmailLower, password |-> PwShort]}

\* a register request arrives and runs up to the existence check
RegisterCheck ==
    \E c \in ConcurrentRegistrations, draw \in RandomDraws :
        LET early == RegisterReject(c.email, c.password)
            rid == Cardinality(inflight) + 1
        IN  /\ Cardinality(inflight) < MaxInflight
            /\ inflight' = inflight \cup
                   {[rid |-> rid, email |-> c.email, password |-> c.password,
                     draw |-> draw,
                     pc |-> IF early = NoResponse THEN "checked" ELSE "done",
                     resp |-> early]}
            /\ req' = IF early = NoResponse THEN NoRequest
                      ELSE [op |-> "register", email |-> c.email, password |-> c.password]
            /\ resp' = early
            /\ UNCHANGED <<users, videos, tokens, now, ticks, vault, signings, corrupted,
                           loggedOut, clientVars, sample>>

\* a register request that passed the existence check does its insert and answers
RegisterInsert ==
    \E r \in inflight :
        LET out == InsertUser(r.email, r.password, r.draw)
        IN  /\ r.pc = "checked"
            /\ inflight' = (inflight \ {r}) \cup {[r EXCEPT !.pc = "done", !.resp = out.resp]}
            /\ req' = [op |-> "register", email |-> r.email, password |-> r.password]
            /\ resp' = out.resp
            /\ users' = IF out.row = NoRow THEN users ELSE users \cup {out.row}
            /\ vault' = IF out.row = NoRow THEN vault
                        ELSE Append(vault, [password |-> r.password,
                                            privateKey |-> r.draw.privateKey,
                                            email |-> r.email])
            /\ UNCHANGED <<videos, tokens, now, ticks, signings, corrupted, loggedOut, clientVars, sample>>

NextRegister == RegisterCheck \/ RegisterInsert

SpecRegister == Init /\ [][NextRegister]_vars

(***************************************************************************)
(* login                                                                   *)
(***************************************************************************)

\* the payload login signs: iat from new Date(), exp from Date.now(), which is
\* read lag milliseconds later
TokenPayload(user, nowMs, lag) ==
    [sub |-> user.id,
     email |-> user.email,
     walletAddress |-> user.walletAddress,
     iat |-> GetNumericDate(nowMs),
     exp |-> GetNumericDate(nowMs + lag + TokenLifetimeMs)]

\* (a variant: the update writes createdAt too)
TouchBoth(user, nowMs) == [user EXCEPT !.updatedAt = nowMs, !.createdAt = nowMs]

\* update({ updatedAt: new Date().toISOString() }) of the account's row
TouchUpdatedAt(user, nowMs) == [user EXCEPT !.updatedAt = nowMs]

\* the login handler: its response and the token it issued (NoToken: none)
LoginOutcome(email, password, lag) ==
    IF email = Empty \/ password = Empty
    THEN [resp |-> Response("login", 400, "Email and password are required", NoBody),
          token |-> NoToken]
    ELSE LET found == {u \in users : u.email = email}
         IN  IF found = {}
             THEN [resp |-> Response("login", 401, "Invalid email or password", NoBody),
                   token |-> NoToken]
             ELSE LET user == CHOOSE u \in found : TRUE
                  IN  IF ~BcryptVerify(password, user.passwordHash)
                      THEN [resp |-> Response("login", 401, "Invalid email or password",
                                              NoBody),
                            token |-> NoToken]
                      ELSE LET token == JwtCreate(TokenPayload(user, now, lag), JwtSecret)
                           IN  [resp |-> Response("login", 200, "",
                                                  [token |-> token,
                                                   user |-> PublicUser(user)]),
                                token |-> token]

\* one login request out of the given ones is handled, while the clients hold
\* fewer than maxTokens tokens; the clock reads of a successful login are lag
\* milliseconds apart, for a lag out of lags
ServeLogin(requests, maxTokens, lags) ==
    \E c \in requests :
        LET email == c.email
            password == c.password
            first == LoginOutcome(email, password, 0)
        IN  \E lag \in IF first.token = NoToken THEN {0} ELSE lags :
            LET out == IF lag = 0 THEN first ELSE LoginOutcome(email, password, lag)
            IN  /\ out.token # NoToken => Cardinality(tokens \cup {out.token}) <= maxTokens
                /\ req' = [op |-> "login", email |-> email, password |-> password]
                /\ resp' = out.resp
                /\ tokens' = IF out.token = NoToken THEN tokens ELSE tokens \cup {out.token}
                /\ users' = IF out.token = NoToken THEN users
                            ELSE {IF u.id = out.token.payload.sub
                                  THEN TouchUpdatedAt(u, now + lag) ELSE u : u \in users}
                /\ UNCHANGED <<videos, now, ticks, vault, signings, corrupted, inflight,
                               loggedOut, sample>>

LoginWithin(requests, maxTokens, lags) ==
    ServeLogin(requests, maxTokens, lags) /\ UNCHANGED clientVars

LoginBy(requests) == LoginWithin(requests, MaxTokens, {0})

Login == LoginBy(Credentials)

(***************************************************************************)
(* upload-video-metadata                                                   *)
(***************************************************************************)

\* (a variant: the key of an account that has signed before is kept and reused)
UnwrapRemembered(user, password) ==
    LET kept == {s \in signings : \E v \in videos : v.id = s.videoId /\ v.ownerId = user.id}
    IN  IF kept # {}
        THEN [ok |-> TRUE, privateKey |-> (CHOOSE s \in kept : TRUE).privateKey]
        ELSE LET dec == AesGcmDecrypt(DeriveKey(TextEncode(password), FromHex(user.salt),
                                                UnwrapIterations),
                                      FromHex(user.iv), FromHex(user.encryptedPrivateKey))
             IN  [ok |-> dec.ok, privateKey |-> TextDecode(dec.plain)]

\* upload-video-metadata: hex strings back to bytes, PBKDF2, AES-GCM decrypt,
\* TextDecoder; ok = FALSE when decrypt throws
Unwrap(user, password) ==
    LET salt == FromHex(user.salt)
        iv == FromHex(user.iv)
        key == DeriveKey(TextEncode(password), salt, UnwrapIterations)
        dec == AesGcmDecrypt(key, iv, FromHex(user.encryptedPrivateKey))
    IN  [ok |-> dec.ok, privateKey |-> TextDecode(dec.plain)]

\* (a variant: the owner is taken from the body)
RowOwnedAsAsked(body, user, signature, lag) ==
    [id |-> Cardinality(signings) + 1,
     title |-> body.title,
     videoUrl |-> body.videoUrl,
     ownerId |-> body.ownerId,
     signature |-> signature,
     createdAt |-> now + lag]

\* the row upload-video-metadata inserts; id and createdAt are the table's defaults
NewVideoRow(body, user, signature, lag) ==
    [id |-> Cardinality(signings) + 1,
     title |-> body.title,
     videoUrl |-> body.videoUrl,
     ownerId |-> user.id,
     signature |-> signature,
     createdAt |-> now + lag]

NoSigning == [videoId |-> 0]

\* (a variant: no comparison)
AddressUnchecked(address, user) == TRUE

\* signer.address !== user.walletAddress, negated
AddressMatches(address, user) == address = user.walletAddress

\* (a variant: a query that falls back to the rows of other accounts)
LoadAnyUser(sub) ==
    IF \E u \in users : u.id = sub THEN {u \in users : u.id = sub} ELSE users

\* from('User').select(...).eq('id', payload.sub).single(): the rows found
LoadUser(sub) == {u \in users : u.id = sub}

\* the steps of the handler, in the order of the code
UploadOrder == <<"verify", "validate", "load", "unwrap", "address", "sign", "insert">>

\* the handler returns an error after the first n steps
UploadFail(status, error, n) ==
    [resp |-> Response("upload", status, error, NoBody), row |-> NoRow,
     signing |-> NoSigning, steps |-> SubSeq(UploadOrder, 1, n)]

\* (a variant: the row is inserted before the key is unwrapped)
InsertThenUnwrap(user, body, lag) ==
    LET un == Unwrap(user, body.password)
        iso == ToISOString(now)
        message == CanonicalMessage(body.videoUrl, body.title, iso)
        row == NewVideoRow(body, user, SignMessage(un.privateKey, message), lag)
    IN  IF ~un.ok
        THEN [resp |-> Response("upload", 401, "Invalid password", NoBody), row |-> row,
              signing |-> NoSigning, steps |-> SubSeq(UploadOrder, 1, 4)]
        ELSE [resp |-> Response("upload", 201, "", row),
              row |-> row,
              signing |-> [videoId |-> row.id, privateKey |-> un.privateKey,
                           message |-> message, iso |-> iso],
              steps |-> UploadOrder]

\* the steps after the account is loaded: unwrap, address check, sign, insert
SignAndInsert(user, body, lag) ==
    LET un == Unwrap(user, body.password)
    IN  IF ~un.ok THEN UploadFail(401, "Invalid password", 4)
        ELSE IF ~IsPrivateKey(un.privateKey) THEN UploadFail(500, "Internal server error", 5)
        ELSE IF ~AddressMatches(ComputeAddress(un.privateKey), user)
        THEN UploadFail(500, "Wallet address mismatch", 5)
        ELSE LET iso == ToISOString(now)
                 message == CanonicalMessage(body.videoUrl, body.title, iso)
                 row == NewVideoRow(body, user, SignMessage(un.privateKey, message), lag)
             IN  [resp |-> Response("upload", 201, "", row),
                  row |-> row,
                  signing |-> [videoId |-> row.id, privateKey |-> un.privateKey,
                               message |-> message, iso |-> iso],
                  steps |-> UploadOrder]

\* (a variant: the body is read and validated before the token is verified)
UploadValidatingFirst(auth, body, lag) ==
    IF auth = NoAuth \/ auth.scheme # "Bearer "
    THEN UploadFail(401, "Missing or invalid authorization token", 0)
    ELSE IF body = BadJson THEN UploadFail(500, "Internal server error", 2)
    ELSE IF body.videoUrl = Empty \/ body.title = Empty \/ body.password = Empty
    THEN UploadFail(400, "Video URL, title, and password are required", 2)
    ELSE IF ~JwtVerify(auth.token, JwtSecret, now).ok
    THEN UploadFail(401, "Invalid or expired token", 1)
    ELSE LET found == LoadUser(auth.token.payload.sub)
         IN  IF found = {} THEN UploadFail(404, "User not found", 3)
             ELSE SignAndInsert(CHOOSE u \in found : TRUE, body, lag)

\* the upload-video-metadata handler: its response, the row it inserted, what
\* it signed and the steps it took
UploadOutcome(auth, body, lag) ==
    IF auth = NoAuth \/ auth.scheme # "Bearer "
    THEN UploadFail(401, "Missing or invalid authorization token", 0)
    ELSE IF ~JwtVerify(auth.token, JwtSecret, now).ok
    THEN UploadFail(401, "Invalid or expired token", 1)
    ELSE IF body = BadJson THEN UploadFail(500, "Internal server error", 2)
    ELSE IF body.videoUrl = Empty \/ body.title = Empty \/ body.password = Empty
    THEN UploadFail(400, "Video URL, title, and password are required", 2)
    ELSE LET found == LoadUser(auth.token.payload.sub)
         IN  IF found = {} THEN UploadFail(404, "User not found", 3)
             ELSE SignAndInsert(CHOOSE u \in found : TRUE, body, lag)

Bearer(t) == [scheme |-> "Bearer ", token |-> t]

\* a token somebody changed after login issued it
Altered(t) ==
    {[t EXCEPT !.payload.exp = @ + TokenLifetimeMs \div 1000],
     [t EXCEPT !.signature = (@ + 1) % HashMod],
     [t EXCEPT !.alg = AlgNone],
     JwtCreate(t.payload, ForeignSecret)}

\* the Authorization headers clients send
AuthHeaders ==
    {NoAuth, [scheme |-> "Basic ", token |-> NoToken]}
        \cup {[scheme |-> "Bearer ", token |-> t] :
                 t \in tokens \cup UNION {Altered(x) : x \in tokens}}

\* one upload-video-metadata request with one of the given Authorization
\* headers and one of the given bodies is handled
ServeUpload(auths, bodies) ==
    \E auth \in auths, body \in bodies :
        LET first == UploadOutcome(auth, body, 0)
        IN  \E lag \in IF first.row = NoRow THEN {0} ELSE InsertLag :
            LET out == IF lag = 0 THEN first ELSE UploadOutcome(auth, body, lag)
            IN  /\ out.row # NoRow => Cardinality(videos) < MaxVideos
                /\ req' = [op |-> "upload", auth |-> auth, body |-> body]
                /\ resp' = out.resp
                /\ videos' = IF out.row = NoRow THEN videos ELSE videos \cup {out.row}
                /\ signings' = IF out.signing = NoSigning THEN signings
                               ELSE signings \cup {out.signing}
                /\ UNCHANGED <<users, tokens, now, ticks, vault, corrupted, inflight,
                               loggedOut, sample>>

UploadWith(auths, bodies) == ServeUpload(auths, bodies) /\ UNCHANGED clientVars

UploadBy(bodies) == UploadWith(AuthHeaders, bodies)

Upload == UploadBy(Bodies)

(***************************************************************************)
(* The clock.                                                              *)
(***************************************************************************)

\* the origin of the clock is the first login: before a token exists nothing
\* reads the clock but the tables' defaults
Tick ==
    /\ ticks < MaxTicks
    /\ tokens # {}
    /\ now' = now + TickStep(ticks + 1)
    /\ ticks' = ticks + 1
    /\ req' = NoRequest
    /\ resp' = NoResponse
    /\ UNCHANGED <<users, videos, tokens, vault, signings, corrupted, inflight, loggedOut, clientVars, sample>>

Next == Register \/ Login \/ Upload \/ Tick

Spec == Init /\ [][Next]_vars

(***************************************************************************)
(* Stored rows altered in place, by somebody with write access to the      *)
(* "User" table.                                                           *)
(***************************************************************************)

\* the stored fields of the wrapped key, and by how much a byte is changed
BundleFields == {"salt", "iv", "encryptedPrivateKey"}
ByteDeltas == {1, 128}

\* the bytes with the i-th one changed by d
ChangeByte(bytes, i, d) == [bytes EXCEPT ![i] = (@ + d) % 256]

\* one byte of one field of one account's wrapped key is changed
CorruptBundle ==
    \E u \in users, f \in BundleFields, d \in ByteDeltas :
        \E i \in 1..Len(FromHex(u[f])) :
            /\ corrupted = {}
            /\ users' = (users \ {u})
                            \cup {[u EXCEPT ![f] = ToHex(ChangeByte(FromHex(u[f]), i, d))]}
            /\ corrupted' = {[id |-> u.id, field |-> f]}
            /\ req' = NoRequest
            /\ resp' = NoResponse
            /\ UNCHANGED <<videos, tokens, now, ticks, vault, signings, inflight, loggedOut, clientVars, sample>>

\* one account's stored wallet address is replaced by the address of another key
\* (KeyC: a key no account was created with)
CorruptAddress ==
    \E u \in users, k \in {KeyA, KeyB, KeyC} :
        /\ corrupted = {}
        /\ \A v \in users : v.walletAddress # ComputeAddress(k)
        /\ users' = (users \ {u}) \cup {[u EXCEPT !.walletAddress = ComputeAddress(k)]}
        /\ corrupted' = {[id |-> u.id, field |-> "walletAddress"]}
        /\ req' = NoRequest
        /\ resp' = NoResponse
        /\ UNCHANGED <<videos, tokens, now, ticks, vault, signings, inflight, loggedOut, clientVars, sample>>

\* the requests of one client, with the right and with another password
OneRegistration == {[email |-> EmailLower, password |-> PwGood]}
OneCredentials == {[email |-> EmailLower, password |-> p] : p \in {PwGood, PwAccent}}
OneBodies == {[videoUrl |-> UrlA, title |-> TitleA, password |-> p] : p \in {PwGood, PwAccent}}

RegisterOne == RegisterBy(OneRegistration)
LoginOne == LoginBy(OneCredentials)
UploadOne == UploadBy(OneBodies)

NextTamper == RegisterOne \/ LoginOne \/ UploadOne \/ CorruptBundle \/ CorruptAddress

SpecTamper == Init /\ [][NextTamper]_vars

(***************************************************************************)
(* One client over a week: logins at several times, logout, uploads.       *)
(***************************************************************************)

MaxSessionTokens == 2

\* by how much Date.now() is read after new Date() in login
ReadLag == {0, 1}

\* how far the clock advances in its k-th step of a session: to just below half
\* a second, by a token lifetime, then second by second
SessionStep(k) ==
    IF k = 1 THEN 499 ELSE IF k = 2 THEN TokenLifetimeMs ELSE 1000

Wait ==
    /\ ticks < MaxTicks
    /\ users # {}
    /\ now' = now + SessionStep(ticks + 1)
    /\ ticks' = ticks + 1
    /\ req' = NoRequest
    /\ resp' = NoResponse
    /\ UNCHANGED <<users, videos, tokens, vault, signings, corrupted, inflight, loggedOut, clientVars, sample>>

\* useAuth.logout: the client drops its token; no request is sent
Logout ==
    \E t \in tokens \ loggedOut :
        /\ loggedOut' = loggedOut \cup {t}
        /\ req' = NoRequest
        /\ resp' = NoResponse
        /\ UNCHANGED <<users, videos, tokens, now, ticks, vault, signings, corrupted,
                       inflight, clientVars, sample>>

LoginSession == LoginWithin(OneCredentials, MaxSessionTokens, ReadLag)

\* the client's uploads: with a token it got from login and its password
UploadSession ==
    UploadWith({Bearer(t) : t \in tokens},
               {[videoUrl |-> UrlA, title |-> TitleA, password |-> PwGood]})

NextSession == RegisterOne \/ LoginSession \/ UploadSession \/ Logout \/ Wait

SpecSession == Init /\ [][NextSession]_vars

(***************************************************************************)
(* An account removed from the "User" table while its token is in use.     *)
(***************************************************************************)

MaxAccounts == 2

\* a row of "User" is deleted from outside the edge functions; its Video rows
\* go with it (ON DELETE CASCADE)
DeleteUser ==
    \E u \in users :
        /\ users' = users \ {u}
        /\ videos' = {v \in videos : v.ownerId # u.id}
        /\ req' = NoRequest
        /\ resp' = NoResponse
        /\ UNCHANGED <<tokens, now, ticks, vault, signings, corrupted, inflight, loggedOut,
                       clientVars, sample>>

RegisterAgain == Len(vault) < MaxAccounts /\ RegisterOne

\* the client's uploads: no header, its token, its token with another header;
\* the right password, another one, none, and a body that is not JSON
OrphanAuths ==
    {NoAuth} \cup {Bearer(t) : t \in tokens}
        \cup {Bearer([t EXCEPT !.alg = AlgNone]) : t \in tokens}
OrphanBodies ==
    {[videoUrl |-> UrlA, title |-> TitleA, password |-> p] : p \in {PwGood, PwAccent, Empty}}
        \cup {BadJson}

UploadOrphan == UploadWith(OrphanAuths, OrphanBodies)

NextOrphan == RegisterAgain \/ LoginOne \/ UploadOrphan \/ DeleteUser

SpecOrphan == Init /\ [][NextOrphan]_vars

(***************************************************************************)
(* Two accounts with one password, and bodies that name an owner.          *)
(***************************************************************************)

TwoRegistrations == {[email |-> e, password |-> PwGood] : e \in {EmailLower, EmailUpper}}

\* bodies with a field the handler does not read: the id of an account
OwnerBodies ==
    {[videoUrl |-> UrlA, title |-> TitleA, password |-> PwGood, ownerId |-> o] :
        o \in 1..MaxAccounts}

RegisterTwo == RegisterBy(TwoRegistrations)
LoginTwo == LoginWithin(TwoRegistrations, MaxSessionTokens, {0})
UploadOwned == UploadWith({Bearer(t) : t \in tokens}, OwnerBodies)

NextOwner == RegisterTwo \/ LoginTwo \/ UploadOwned

SpecOwner == Init /\ [][NextOwner]_vars

(***************************************************************************)
(* The browser: api.ts (axios with its interceptors), AuthProvider, the    *)
(* pages.  Every request of this part goes through api.ts.                 *)
(***************************************************************************)

\* api.ts, request interceptor: the Authorization header of a request
AuthorizationOf(items) ==
    IF items.auth_token # Null THEN Bearer(items.auth_token) ELSE NoAuth

\* window.location.href = '/login': the browser leaves for /login, where the
\* app loads anew
SentToLogin == [path |-> "/login", loaded |-> FALSE]

\* navigate(path) of react-router: another page of the loaded app
Navigated(path) == [path |-> path, loaded |-> TRUE]

\* (a variant: the session is dropped only when the token was refused)
InterceptTokenErrors(r, items, loc) ==
    IF r.status = 401 /\ r.error \in {"Invalid or expired token",
                                       "Missing or invalid authorization token"}
    THEN [storage |-> NoItems, location |-> SentToLogin]
    ELSE [storage |-> items, location |-> loc]

\* api.ts, response interceptor: what becomes of localStorage and of the
\* location on response r
ResponseInterceptor(r, items, loc) ==
    IF r.status = 401
    THEN [storage |-> NoItems, location |-> SentToLogin]
    ELSE [storage |-> items, location |-> loc]

\* AuthProvider as it is mounted, before its effect has run
InitialAuthState == [user |-> Null, token |-> Null, loading |-> TRUE, error |-> Null]

\* the app loads: AuthProvider is mounted and its effect reads localStorage
PageLoad ==
    /\ ~location.loaded
    /\ authState' = IF storage.auth_token # Null /\ storage.user # Null
                    THEN [user |-> storage.user, token |-> storage.auth_token,
                          loading |-> FALSE, error |-> Null]
                    ELSE [InitialAuthState EXCEPT !.loading = FALSE]
    /\ location' = [location EXCEPT !.loaded = TRUE]
    /\ req' = NoRequest
    /\ resp' = NoResponse
    /\ UNCHANGED <<users, videos, tokens, now, ticks, vault, signings, corrupted, inflight,
                   loggedOut, storage, sample>>

\* useAuth.login
ClientLogin ==
    /\ location.loaded
    /\ ServeLogin(OneCredentials, MaxTokens, {0})
    /\ IF resp'.status = 200
       THEN /\ storage' = [auth_token |-> resp'.body.token, user |-> resp'.body.user]
            /\ authState' = [user |-> resp'.body.user, token |-> resp'.body.token,
                             loading |-> FALSE, error |-> Null]
            /\ location' = Navigated("/")
       ELSE /\ storage' = ResponseInterceptor(resp', storage, location).storage
            /\ location' = ResponseInterceptor(resp', storage, location).location
            /\ authState' = [authState EXCEPT !.loading = FALSE, !.error = resp'.error]

\* useAuth.register
ClientRegister ==
    /\ location.loaded
    /\ ServeRegister(OneRegistration)
    /\ IF resp'.status = 201
       THEN /\ storage' = storage
            /\ authState' = [authState EXCEPT !.loading = FALSE, !.error = Null]
            /\ location' = Navigated("/login")
       ELSE /\ storage' = ResponseInterceptor(resp', storage, location).storage
            /\ location' = ResponseInterceptor(resp', storage, location).location
            /\ authState' = [authState EXCEPT !.loading = FALSE, !.error = resp'.error]

\* useAuth.logout
ClientLogout ==
    /\ location.loaded
    /\ storage' = NoItems
    /\ authState' = [InitialAuthState EXCEPT !.loading = FALSE]
    /\ location' = Navigated("/login")
    /\ loggedOut' = IF storage.auth_token = Null THEN loggedOut
                    ELSE loggedOut \cup {storage.auth_token}
    /\ req' = NoRequest
    /\ resp' = NoResponse
    /\ UNCHANGED <<users, videos, tokens, now, ticks, vault, signings, corrupted, inflight,
                   sample>>

\* UploadPage.onSubmit, from videoApi.uploadMetadata on: the page keeps its own
\* state only
ClientUpload ==
    /\ location.loaded
    /\ ServeUpload({AuthorizationOf(storage)}, OneBodies)
    /\ storage' = ResponseInterceptor(resp', storage, location).storage
    /\ location' = ResponseInterceptor(resp', storage, location).location
    /\ authState' = authState

NextClient == PageLoad \/ ClientRegister \/ ClientLogin \/ ClientLogout \/ ClientUpload

SpecClient == Init /\ [][NextClient]_vars

(***************************************************************************)
(* The hex storage format: what register writes, upload-video-metadata     *)
(* reads back.                                                             *)
(***************************************************************************)

MaxBytes == 2

\* byte values: zero, below and at 0x10, the digits a-f, the largest
ByteValues == {0, 1, 9, 10, 15, 16, 171, 255}

\* the byte arrays of a bundle (salt, iv, ciphertext), up to MaxBytes bytes long
RECURSIVE ByteArrays(_)
ByteArrays(n) ==
    IF n = 0 THEN {<<>>}
    ELSE LET shorter == ByteArrays(n - 1)
         IN  shorter \cup {Append(b, v) : b \in {x \in shorter : Len(x) = n - 1},
                                          v \in ByteValues}

InitHex ==
    /\ users = {}
    /\ videos = {}
    /\ tokens = {}
    /\ now = 0
    /\ ticks = 0
    /\ req = NoRequest
    /\ resp = NoResponse
    /\ vault = <<>>
    /\ signings = {}
    /\ corrupted = {}
    /\ inflight = {}
    /\ loggedOut = {}
    /\ storage = NoItems
    /\ authState = [user |-> Null, token |-> Null, loading |-> TRUE, error |-> Null]
    /\ location = [path |-> "/", loaded |-> FALSE]
    /\ sample \in {[stage |-> "bytes", bytes |-> b] : b \in ByteArrays(MaxBytes) \ {<<>>}}

\* register: the bytes become a hex string
HexWrite ==
    /\ sample.stage = "bytes"
    /\ sample' = [stage |-> "stored", bytes |-> sample.bytes, hex |-> ToHex(sample.bytes)]
    /\ UNCHANGED <<serverVars, clientVars>>

\* upload-video-metadata: the hex string becomes bytes
HexRead ==
    /\ sample.stage = "stored"
    /\ sample' = [stage |-> "read", bytes |-> sample.bytes, hex |-> sample.hex,
                  back |-> FromHex(sample.hex)]
    /\ UNCHANGED <<serverVars, clientVars>>

NextHex == HexWrite \/ HexRead

SpecHex == InitHex /\ [][NextHex]_vars

(***************************************************************************)
(* The message that is signed, as a function of videoUrl and title.        *)
(***************************************************************************)

MaxPieces == 3

\* what a videoUrl or a title is made of here: "a" and "\nTitle: "
Pieces == {<<97>>, <<10, 84, 105, 116, 108, 101, 58, 32>>}

\* the texts of up to n pieces
RECURSIVE PieceTexts(_)
PieceTexts(n) ==
    IF n = 0 THEN {<<>>}
    ELSE LET shorter == PieceTexts(n - 1)
         IN  shorter \cup {t \o piece : t \in shorter, piece \in Pieces}

\* the values of videoUrl and of title: the handler wants them non-empty
MessageTexts == PieceTexts(MaxPieces) \ {Empty}

InitMessage ==
    /\ users = {}
    /\ videos = {}
    /\ tokens = {}
    /\ now = 0
    /\ ticks = 0
    /\ req = NoRequest
    /\ resp = NoResponse
    /\ vault = <<>>
    /\ signings = {}
    /\ corrupted = {}
    /\ inflight = {}
    /\ loggedOut = {}
    /\ storage = NoItems
    /\ authState = [user |-> Null, token |-> Null, loading |-> TRUE, error |-> Null]
    /\ location = [path |-> "/", loaded |-> FALSE]
    /\ sample \in {[stage |-> "fields", videoUrl |-> u, title |-> t] :
                       u \in MessageTexts, t \in MessageTexts}

\* upload-video-metadata builds the message to sign
ComposeMessage ==
    /\ sample.stage = "fields"
    /\ sample' = [stage |-> "message", videoUrl |-> sample.videoUrl, title |-> sample.title,
                  message |-> CanonicalMessage(sample.videoUrl, sample.title,
                                               ToISOString(now))]
    /\ UNCHANGED <<serverVars, clientVars>>

NextMessage == ComposeMessage

SpecMessage == InitMessage /\ [][NextMessage]_vars

(***************************************************************************)
(* Properties.                                                             *)
(***************************************************************************)

\* an account none of whose stored fields was altered in place
Intact(u) == \A c \in corrupted : c.id # u.id

\* request r is an upload whose token passes the token check at time t
Authenticated(r, t) ==
    /\ r.op = "upload"
    /\ r.auth.scheme = "Bearer "
    /\ JwtVerify(r.auth.token, JwtSecret, t).ok

\* the body of upload request r is JSON with its three fields present
Complete(r) ==
    /\ r.body # BadJson
    /\ r.body.videoUrl # Empty /\ r.body.title # Empty /\ r.body.password # Empty

\* the account the token of upload request r names
Holder(r) == CHOOSE u \in users : u.id = r.auth.token.payload.sub

\* the response of the WrongPassword outcome
WrongPassword == Response("upload", 401, "Invalid password", NoBody)

\* C1: for every account that registration created and nobody altered, the
\* upload flow's unwrap of the stored bundle (salt, iv, ciphertext as hex) under
\* the password given at registration succeeds and yields exactly the private
\* key that registration wrapped.
C1_RoundTrip ==
    \A u \in users :
        Intact(u) => Unwrap(u, vault[u.id].password)
                        = [ok |-> TRUE, privateKey |-> vault[u.id].privateKey]

\* an account whose password has a non-ASCII character unwraps to its key
C1_Witness ==
    \E u \in users :
        /\ vault[u.id].password = PwAccent
        /\ Unwrap(u, PwAccent) = [ok |-> TRUE, privateKey |-> vault[u.id].privateKey]

\* C2: an upload with a token that verifies and a complete body whose password
\* is not the one the account's key was wrapped with at registration is answered
\* 401 'Invalid password'; that step signs nothing and inserts no Video row.
C2_WrongPassword ==
    [][(/\ Authenticated(req', now')
        /\ Complete(req')
        /\ req'.body.password # vault[Holder(req').id].password)
       => (/\ resp' = WrongPassword
           /\ signings' = signings
           /\ videos' = videos)]_vars

\* such an upload was answered
C2_Witness ==
    /\ Authenticated(req, now)
    /\ Complete(req)
    /\ req.body.password # vault[Holder(req).id].password
    /\ resp = WrongPassword

\* C3: after one byte of the stored salt, iv or ciphertext of an account was
\* changed, an upload for that account with a token that verifies and a complete
\* body (the registration password included) is answered exactly as a wrong
\* password is, 401 'Invalid password'; that step signs nothing and inserts no
\* Video row.
C3_Tamper ==
    [][(/\ Authenticated(req', now')
        /\ Complete(req')
        /\ \E c \in corrupted : c.id = Holder(req').id /\ c.field \in BundleFields)
       => (/\ resp' = WrongPassword
           /\ signings' = signings
           /\ videos' = videos)]_vars

\* the ciphertext was changed and an upload with the registration password answered
C3_Witness ==
    /\ Authenticated(req, now)
    /\ Complete(req)
    /\ req.body.password = vault[Holder(req).id].password
    /\ corrupted = {[id |-> Holder(req).id, field |-> "encryptedPrivateKey"]}
    /\ resp = WrongPassword

\* upload request r, handled at time t, has no Bearer header, or a token login
\* did not issue, or a token whose exp, and the verifier's leeway, have passed
Unauthenticated(r, t) ==
    /\ r.op = "upload"
    /\ \/ r.auth.scheme # "Bearer "
       \/ r.auth.token \notin tokens
       \/ (r.auth.token.payload.exp + ExpLeeway) * 1000 < t

Accepted(t) ==
    \A body \in Bodies :
        UploadOutcome(Bearer(t), body, 0).resp.error # "Invalid or expired token"

\* upload-video-metadata, now, answers token t with 401, whatever the body
Refused(t) ==
    \A body \in Bodies :
        UploadOutcome(Bearer(t), body, 0).resp
            = Response("upload", 401, "Invalid or expired token", NoBody)

C6_AddressMismatch ==
    [][(/\ Authenticated(req', now')
        /\ Complete(req')
        /\ Unwrap(Holder(req'), req'.body.password).ok
        /\ IsPrivateKey(Unwrap(Holder(req'), req'.body.password).privateKey)
        /\ ComputeAddress(Unwrap(Holder(req'), req'.body.password).privateKey)
              # Holder(req').walletAddress)
       => (/\ resp' = Response("upload", 500, "Wallet address mismatch", NoBody)
           /\ signings' = signings
           /\ videos' = videos)]_vars

\* the stored address was replaced and an upload with the right password answered
C6_Witness ==
    /\ Authenticated(req, now)
    /\ Complete(req)
    /\ corrupted = {[id |-> Holder(req).id, field |-> "walletAddress"]}
    /\ resp = Response("upload", 500, "Wallet address mismatch", NoBody)

\* C7: every Video row has an owner account, and its signature was made with
\* the private key registration created for that account, over the canonical
\* message of the row's videoUrl and title and the timestamp taken at signing;
\* the signature verifies against the owner's walletAddress for that message.
C7_SignedByOwner ==
    \A v \in videos :
        \E u \in users, s \in signings :
            /\ u.id = v.ownerId
            /\ s.videoId = v.id
            /\ s.privateKey = vault[u.id].privateKey
            /\ s.message = CanonicalMessage(v.videoUrl, v.title, s.iso)
            /\ v.signature = SignMessage(s.privateKey, s.message)
            /\ VerifyMessage(s.message, v.signature) = u.walletAddress

\* an upload was answered 201 and its row is in the table
C7_Witness ==
    /\ req.op = "upload"
    /\ resp.status = 201
    /\ resp.body \in videos

\* C8: the timestamp every Video row stores is the one in the message that was
\* signed, so the message rebuilt from the row verifies against the owner.
C8_StoredTimestamp ==
    \A v \in videos :
        \E u \in users, s \in signings :
            /\ u.id = v.ownerId
            /\ s.videoId = v.id
            /\ ToISOString(v.createdAt) = s.iso
            /\ VerifyMessage(CanonicalMessage(v.videoUrl, v.title, ToISOString(v.createdAt)),
                             v.signature) = u.walletAddress

\* C9: a well-formed register request whose email equals, ignoring letter case,
\* the email of an account is answered 409 and creates no account.
C9_EmailTaken ==
    [][(/\ req'.op = "register"
        /\ req'.email # Empty /\ req'.password # Empty
        /\ EmailRegexTest(req'.email)
        /\ Len(req'.password) >= MinPasswordLength
        /\ \E u \in users : ToLowerCase(u.email) = ToLowerCase(req'.email))
       => (resp'.status = 409 /\ users' = users)]_vars

\* C10: the email of every account is in lower case.
C10_LowercaseStored == \A u \in users : u.email = ToLowerCase(u.email)

\* C11: the insert of a register request that passed the existence check and
\* then meets an account with its email (created in between by a concurrent
\* request) is answered 409.
C11_ConflictIsEmailTaken ==
    [][\A r \in inflight :
          (/\ r.pc = "checked"
           /\ [r EXCEPT !.pc = "done", !.resp = resp'] \in inflight'
           /\ \E u \in users : u.email = r.email)
          => resp'.status = 409]_vars

\* C12: whatever the interleaving of the register requests, no two accounts
\* have the same email or the same walletAddress, and no two register requests
\* for the same email were both answered 201.
C12_OneAccountPerEmail ==
    /\ \A u, v \in users :
          (u.email = v.email \/ u.walletAddress = v.walletAddress) => u = v
    /\ \A r, q \in inflight :
          (r.email = q.email /\ r.resp.status = 201 /\ q.resp.status = 201) => r = q

\* two requests for one email, with different keys, both passed the existence
\* check; one was answered 201, the other was not
C12_Witness ==
    \E r, q \in inflight :
        /\ r.email = q.email
        /\ r.draw.privateKey # q.draw.privateKey
        /\ RegisterReject(r.email, r.password).status = 409
        /\ r.resp.status = 201
        /\ q.resp.status = 500

\* C15: the password of every account has at least eight characters and has a
\* lowercase letter, an uppercase letter and a digit.
C15_PolicyEnforced ==
    \A u \in users :
        /\ Len(vault[u.id].password) >= MinPasswordLength
        /\ PasswordPattern(vault[u.id].password)

\* "0x" and two hex digits for each byte of an address
IsAddress(a) ==
    /\ Len(a) = 2 + 2 * AddressBytes
    /\ a[1] = 48 /\ a[2] = 120
    /\ \A i \in 3..Len(a) : DigitValue(a[i]) >= 0

\* C17: a register request with a well-formed email, a password of at least
\* eight characters and an email no account has is answered 201 with the new
\* account, whose walletAddress is the address ("0x" and hex digits) of the key
\* pair generated for it and whose username is that walletAddress; the one
\* exception is a generated key whose address an account already has.
C17_RegisterSucceeds ==
    [][(req'.op = "register" /\ RegisterReject(req'.email, req'.password) = NoResponse)
       => \/ /\ resp'.status = 201
             /\ \E row \in users' \ users :
                   /\ users' = users \cup {row}
                   /\ resp'.body = PublicUser(row)
                   /\ row.email = req'.email
                   /\ IsAddress(row.walletAddress)
                   /\ row.walletAddress = ComputeAddress(vault'[row.id].privateKey)
                   /\ row.username = row.walletAddress
          \/ /\ resp'.status = 500
             /\ \E u \in users, d \in RandomDraws :
                   u.walletAddress = ComputeAddress(d.privateKey)]_vars

\* a second account was created and the response shows its address as username
C17_Witness ==
    /\ req.op = "register"
    /\ resp.status = 201
    /\ Cardinality(users) = 2
    /\ resp.body.username = resp.body.walletAddress
    /\ IsAddress(resp.body.walletAddress)

\* the fields of the rows, tokens and signatures that hold text, and those that
\* hold a record
TextNames ==
    {"email", "username", "walletAddress", "encryptedPrivateKey", "salt", "iv",
     "title", "videoUrl", "password", "privateKey", "signer", "message"}
RecordNames == {"passwordHash", "signature"}
Texts(r) == {r[f] : f \in DOMAIN r \cap TextNames}
Records(r) == {r[f] : f \in DOMAIN r \cap RecordNames}

\* every text a response body carries (for login those of the user, of the
\* token's header and of its payload; for upload also those of the signature)
ResponseTexts(r) ==
    IF r.body = NoBody THEN {}
    ELSE IF r.op = "login"
         THEN Texts(r.body.user) \cup Texts(r.body.token.payload) \cup {r.body.token.alg}
         ELSE IF r.op = "upload"
              THEN Texts(r.body) \cup Texts(r.body.signature)
              ELSE Texts(r.body)

\* every record a response body carries as the value of a field
ResponseRecords(r) ==
    IF r.body = NoBody THEN {}
    ELSE IF r.op = "login" THEN Records(r.body.user) ELSE Records(r.body)

\* the private keys, the passwords (the accounts' and the one of the request)
\* and the fields of the wrap bundles
Secrets ==
    {vault[i].privateKey : i \in DOMAIN vault}
        \cup {vault[i].password : i \in DOMAIN vault}
        \cup (IF req.op \in {"register", "login"} THEN {req.password} \ {Empty}
              ELSE IF req.op = "upload" /\ req.body # BadJson
                   THEN {req.body.password} \ {Empty}
                   ELSE {})
        \cup {u.encryptedPrivateKey : u \in users}
        \cup {u.salt : u \in users}
        \cup {u.iv : u \in users}

\* C14: no response of register, login or upload-video-metadata, success or
\* error, carries a private key, a password, a password hash, or the
\* encryptedPrivateKey, salt or iv of an account.
C14_NoSecretInResponse ==
    /\ ResponseTexts(resp) \cap Secrets = {}
    /\ ResponseRecords(resp) \cap {u.passwordHash : u \in users} = {}

\* an upload that unwrapped the private key and signed with it was answered 201
C14_Witness ==
    /\ req.op = "upload"
    /\ resp.status = 201
    /\ \E s \in signings : s.videoId = resp.body.id /\ s.privateKey \in Secrets

\* C16: for every account registration created (and nobody altered), the
\* bundle unwrapped with the registration password gives a private key whose
\* address is the account's walletAddress; no upload is answered
\* 'Wallet address mismatch'.
C16_AddressRederivable ==
    /\ \A u \in users :
          Intact(u) =>
              LET plain == Unwrap(u, vault[u.id].password)
              IN  plain.ok /\ ComputeAddress(plain.privateKey) = u.walletAddress
    /\ resp.error # "Wallet address mismatch"

\* an upload with the registration password passed the address check
C16_Witness ==
    /\ Authenticated(req, now)
    /\ Complete(req)
    /\ req.body.password = vault[Holder(req).id].password
    /\ resp.status = 201
    /\ resp.body.signature.signer = Holder(req).walletAddress

\* the response of login to an unknown email and to a wrong password
InvalidCredentials == Response("login", 401, "Invalid email or password", NoBody)

\* C20: login answers 200 with a token only when an account has the email and
\* the password verifies against its passwordHash (it is the registration
\* password); a request whose email no account has, and one whose password is
\* not the account's, get the same 401 'Invalid email or password', no token
\* is issued and no account changes.
C20_LoginOnlyWithPassword ==
    [][req'.op = "login" =>
          LET known == {u \in users : u.email = req'.email}
              right == {u \in known : vault[u.id].password = req'.password}
          IN  /\ resp'.status = 200 =>
                     /\ right # {}
                     /\ \A u \in right : BcryptVerify(req'.password, u.passwordHash)
                     /\ resp'.body.token \in tokens'
                     /\ resp'.body.token.payload.sub \in {u.id : u \in right}
              /\ resp'.status # 200 => tokens' = tokens /\ users' = users
              /\ (req'.email # Empty /\ req'.password # Empty /\ right = {})
                     => resp' = InvalidCredentials]_vars

\* a login for an existing account with another account's password was refused
C20_Witness ==
    /\ req.op = "login"
    /\ \E u \in users : u.email = req.email /\ vault[u.id].password # req.password
    /\ req.password \in {vault[i].password : i \in DOMAIN vault}
    /\ resp = InvalidCredentials

\* C13: no step removes an account or changes any of its fields (id, email,
\* username, passwordHash, walletAddress, encryptedPrivateKey, salt, iv,
\* createdAt) but updatedAt, and updatedAt changes only in a login answered 200
\* for that account.
C13_OnlyUpdatedAtWritten ==
    [][\A u \in users :
          \E v \in users' :
              /\ v.id = u.id
              /\ [v EXCEPT !.updatedAt = u.updatedAt] = u
              /\ v.updatedAt # u.updatedAt =>
                     /\ req'.op = "login"
                     /\ resp'.status = 200
                     /\ resp'.body.user.id = u.id]_vars

\* an account that has logged in after it was created and has uploaded a video
C13_Witness ==
    \E u \in users, v \in videos :
        /\ v.ownerId = u.id
        /\ u.updatedAt > u.createdAt

\* C18: every token login issued names an account in sub, carries that
\* account's walletAddress, and its exp is TokenLifetimeMs / 1000 seconds after
\* its iat.
C18_TokenClaims ==
    \A t \in tokens :
        /\ \E u \in users :
              u.id = t.payload.sub /\ u.walletAddress = t.payload.walletAddress
        /\ t.payload.exp = t.payload.iat + TokenLifetimeMs \div 1000

\* C19: an upload with a token login issued, whether or not its client has
\* logged out since and whatever tokens were issued after it, passes the token
\* check as long as the token's exp and the verifier's leeway have not passed.
C19_NotRevocable ==
    [][(/\ req'.op = "upload"
        /\ req'.auth.scheme = "Bearer "
        /\ req'.auth.token \in tokens
        /\ now <= (req'.auth.token.payload.exp + ExpLeeway) * 1000)
       => /\ resp'.error # "Invalid or expired token"
          /\ Authenticated(req', now)]_vars

\* an upload was answered 201 for a token whose client had logged out and after
\* which login had issued another token
C19_Witness ==
    /\ req.op = "upload"
    /\ req.auth.token \in loggedOut
    /\ \E t \in tokens : t.payload.iat > req.auth.token.payload.iat
    /\ resp.status = 201

\* the response of upload-video-metadata to a body with a field missing
FieldsRequired ==
    Response("upload", 400, "Video URL, title, and password are required", NoBody)

\* C21: whatever logins and uploads have succeeded before, an upload with a
\* token that verifies is answered 400 when its body has no password and 401
\* 'Invalid password' when its password is not the registration password of
\* the account, and neither signs or inserts anything; a Video row is inserted
\* only for a body that carries the registration password.
C21_NoKeyRetained ==
    \A t \in tokens :
        JwtVerify(t, JwtSecret, now).ok =>
            \A body \in Bodies \ {BadJson} :
                LET out == UploadOutcome(Bearer(t), body, 0)
                    password == vault[t.payload.sub].password
                IN  /\ body.password = Empty =>
                           /\ out.resp = FieldsRequired
                           /\ out.row = NoRow /\ out.signing = NoSigning
                    /\ (Complete([body |-> body]) /\ body.password # password) =>
                           /\ out.resp = WrongPassword
                           /\ out.row = NoRow /\ out.signing = NoSigning
                    /\ out.row # NoRow => body.password = password

\* the account has uploaded a video, and its next upload, without a password,
\* was answered 400
C21_Witness ==
    /\ Authenticated(req, now)
    /\ req.body # BadJson
    /\ req.body.password = Empty
    /\ \E v \in videos : v.ownerId = Holder(req).id
    /\ resp = FieldsRequired

\* C22: the hex string register writes for a byte array has two lowercase hex
\* digits for each byte, and upload-video-metadata reads exactly the bytes
\* back from it, bytes below 16 and leading zero bytes included.
C22_HexRoundTrip ==
    /\ sample.stage \in {"stored", "read"} =>
          /\ Len(sample.hex) = 2 * Len(sample.bytes)
          /\ \A i \in 1..Len(sample.hex) :
                \/ sample.hex[i] >= 48 /\ sample.hex[i] <= 57
                \/ sample.hex[i] >= 97 /\ sample.hex[i] <= 102
    /\ sample.stage = "read" => sample.back = sample.bytes

\* a zero byte followed by a byte below 16 was written and read back
C22_Witness ==
    /\ sample.stage = "read"
    /\ sample.bytes = <<0, 9>>
    /\ sample.hex = <<48, 48, 48, 57>>
    /\ sample.back = <<0, 9>>

IsPrefix(s, t) == Len(s) <= Len(t) /\ s = SubSeq(t, 1, Len(s))

\* the response of upload-video-metadata when the token's account is not there
UserNotFound == Response("upload", 404, "User not found", NoBody)

C27_UserNotFound ==
    [][(/\ Authenticated(req', now)
        /\ Complete(req')
        /\ \A u \in users : u.id # req'.auth.token.payload.sub)
       => (/\ resp' = UserNotFound
           /\ signings' = signings
           /\ videos' = videos)]_vars

\* the account of the token was deleted, another account exists, and an upload
\* with the deleted account's password was answered 404
C27_Witness ==
    /\ Authenticated(req, now)
    /\ Complete(req)
    /\ users # {}
    /\ \A u \in users : u.id # req.auth.token.payload.sub
    /\ req.body.password = vault[req.auth.token.payload.sub].password
    /\ resp = UserNotFound

C24_OwnerIsSubject ==
    [][\A v \in videos' \ videos :
          /\ Authenticated(req', now)
          /\ v.ownerId = req'.auth.token.payload.sub
          /\ \E u \in users : u.id = v.ownerId]_vars

\* a row was inserted for a body that names the other account, whose password
\* is the same
C24_Witness ==
    /\ req.op = "upload"
    /\ resp.status = 201
    /\ resp.body \in videos
    /\ req.body.ownerId # resp.body.ownerId
    /\ \E u \in users : u.id = req.body.ownerId /\ vault[u.id].password = req.body.password

\* C26: a register step that is not answered 201 leaves the "User" table as
\* it is, and one answered 201 adds exactly one row, the one in its response,
\* and changes no other.
C26_RegisterFrame ==
    [][req'.op = "register" =>
          IF resp'.status = 201
          THEN \E row \in users' \ users :
                   /\ users' = users \cup {row}
                   /\ resp'.body = PublicUser(row)
          ELSE users' = users]_vars

\* the insert of a register request failed and the table holds what it held
C26_Witness ==
    /\ req.op = "register"
    /\ resp = Response("register", 500, "Failed to create user account", NoBody)
    /\ Cardinality(users) = 1
    /\ \A u \in users : u.email # req.email

\* C30: at one timestamp, the message built from a videoUrl and a title is
\* the message of no other pair of a non-empty videoUrl and a non-empty title.
C30_MessageIdentifiesInputs ==
    sample.stage = "message" =>
        \A u \in MessageTexts, t \in MessageTexts :
            CanonicalMessage(u, t, ToISOString(now)) = sample.message
                => u = sample.videoUrl /\ t = sample.title

C29_StateMatchesStorage ==
    req.op # "upload" =>
        /\ (authState.user = Null) = (authState.token = Null)
        /\ (authState.user # Null) = (storage.auth_token # Null /\ storage.user # Null)

=============================================================================
